---- MODULE Spec2Model ----
(***************************************************************************)
(* Pipeline graph builder, validator and save/run lifecycle of             *)
(* aixplain/api/pipeline.py.                                               *)
(*                                                                         *)
(* A pipeline owns an ordered list of nodes and an ordered list of links   *)
(* and an optional handle (instance).  Node objects are identified by      *)
(* NodeIds; the fields of a node object (type, number, pipeline) are kept  *)
(* in per-node functions.  A link object is a record; two link objects     *)
(* with equal fields are distinct list entries.                            *)
(*                                                                         *)
(* Node.attach and Link.attach live in base.py, which is not part of the   *)
(* sources at hand; they are modelled from the description of the attach   *)
(* protocol (sections 3, 4.1 and 4.2 of the specification).                *)
(***************************************************************************)
EXTENDS Integers, Sequences, FiniteSets, TLC

\* ---------------------------------------------------------------- bounds
MaxNodes == 3
MaxLinks == 2
MaxPre == 1
NumPipelines == 2
NumHandles == 2
MaxRoutes == 2

\* ------------------------------------------------------------- constants
\* Python's None (the default of Pipeline.instance, of an unset number and
\* of an unset back-reference).  Node numbers, pipeline ids and handles
\* start at 1, so 0 is free to stand for it.
None == 0

\* NodeType of designer/enums.py; validate() only tells INPUT and OUTPUT
\* from all the others.
NodeType ==
    {"ASSET", "INPUT", "OUTPUT", "SCRIPT", "SEGMENT", "RECONSTRUCT", "ROUTER",
     "DECISION"}

\* The node kinds the model attaches: both terminals and one other kind.
Kinds == {"INPUT", "OUTPUT", "ASSET"}

\* Marks a node object of the pool that no constructor has built yet.
Unbuilt == "unbuilt"

NodeIds == 1..MaxNodes
Pipelines == 1..NumPipelines
Handles == 1..NumHandles
\* Numbers a link may name as its source or target.
LinkNumbers == 1..MaxNodes
\* Numbers a caller may pre-supply to a node.
PreNumbers == 1..MaxPre

\* Arguments a caller passes to run(), results and errors of the remote
\* collaborator (opaque values).
RunArgs == {"args_a", "args_b"}
RunResults == {"result_x", "result_y"}
RemoteError == <<"RemoteError">>
NoError == <<>>

VARIABLES
    nodes,      \* nodes[p]: Pipeline.nodes, a sequence of node objects
    links,      \* links[p]: Pipeline.links, a sequence of link records
    instance,   \* instance[p]: Pipeline.instance, None or a handle
    type,       \* type[n]: Node.type, Unbuilt while n is not constructed
    number,     \* number[n]: Node.number, None while unset
    pipeline,   \* pipeline[n]: Node.pipeline back-reference, None if detached
    last        \* outcome of the latest call (what the caller observes)

vars == <<nodes, links, instance, type, number, pipeline, last>>

\* ------------------------------------------------------------- helpers
Range(s) == {s[i] : i \in DOMAIN s}

Max(S) == CHOOSE x \in S : \A y \in S : y <= x

\* What a call leaves for its caller to observe: the arguments it was
\* given, the exception raised (NoError if none), the value returned, the
\* graph handed to PipelineFactory.create (sub), the call forwarded to the
\* handle (fwd) and what the collaborator returned (got).
Outcome(op, p, args, raised, ret, sub, fwd, got) ==
    [op |-> op, p |-> p, args |-> args, raised |-> raised, ret |-> ret,
     sub |-> sub, fwd |-> fwd, got |-> got]

\* ------------------------------------------------------- node and link
\* Node.label: the default display name, derived from type and number.
Label(n) == <<type[n], number[n]>>

\* A numbering by the count of attached nodes instead of their numbers.
NextNumber_by_count(p) == Len(nodes[p]) + 1

\* The number attach gives a node without one: max existing + 1, or 1.
NextNumber(p) ==
    IF nodes[p] = <<>> THEN 1
    ELSE Max({number[nodes[p][i]] : i \in DOMAIN nodes[p]}) + 1

\* An attach that appends the node to any pipeline that does not hold it.
NodeAttach_if_not_in_list(n, p, num) ==
    IF n \notin Range(nodes[p])
    THEN /\ pipeline' = [pipeline EXCEPT ![n] = p]
         /\ number' = [number EXCEPT ![n] = IF num = None THEN NextNumber(p) ELSE num]
         /\ nodes' = [nodes EXCEPT ![p] = Append(@, n)]
    ELSE UNCHANGED <<pipeline, nodes, number>>

\* Node.attach(pipeline): a node without a pipeline gets the back-reference,
\* a number unless it has one, and is appended; an attached node is left
\* alone.  num is the node's number before the call.
NodeAttach(n, p, num) ==
    IF pipeline[n] = None
    THEN /\ pipeline' = [pipeline EXCEPT ![n] = p]
         /\ number' = [number EXCEPT ![n] = IF num = None THEN NextNumber(p) ELSE num]
         /\ nodes' = [nodes EXCEPT ![p] = Append(@, n)]
    ELSE UNCHANGED <<pipeline, nodes, number>>

\* Link.attach(pipeline): the link is appended to the pipeline's links.
LinkAttach(l, p) ==
    links' = [links EXCEPT ![p] = Append(@, l)]

\* ------------------------------------------------------------ validate
\* Keys of link_from_map and link_to_map.
LinkFromMap(ls) == {ls[i].from_node : i \in DOMAIN ls}

\* A link_to_map keyed by the source instead of the target.
LinkToMap_keyed_by_source(ls) == {ls[i].from_node : i \in DOMAIN ls}

LinkToMap(ls) == {ls[i].to_node : i \in DOMAIN ls}

\* The branch of validate()'s loop for one node: the message of the
\* ValueError it raises, or NoError.
NodeCheck(n, ls) ==
    IF type[n] = "INPUT"
    THEN IF number[n] \notin LinkFromMap(ls)
         THEN <<"Input node", Label(n), "not linked out">>
         ELSE NoError
    ELSE IF type[n] = "OUTPUT"
    THEN IF number[n] \notin LinkToMap(ls)
         THEN <<"Output node", Label(n), "not linked in">>
         ELSE NoError
    ELSE IF number[n] \notin LinkFromMap(ls)
         THEN <<"Node", Label(n), "not linked in">>
         ELSE IF number[n] \notin LinkToMap(ls)
         THEN <<"Node", Label(n), "not linked out">>
         ELSE NoError

\* validate() over a node list and a link list: the error of the first
\* node, in list order, whose check fails; NoError if none fails.
ValidateResult(ns, ls) ==
    LET bad == {i \in DOMAIN ns : NodeCheck(ns[i], ls) # NoError}
    IN  IF bad = {} THEN NoError
        ELSE NodeCheck(ns[CHOOSE i \in bad : \A j \in bad : i <= j], ls)

\* ------------------------------------------------------------- to_dict
\* asdict of one node: the fields the wire format names.
NodeDict(n) == [number |-> number[n], label |-> Label(n), type |-> type[n]]

\* d[new] = d.pop(old) on a dictionary (a function of its keys).
Rename(d, old, new) ==
    [k \in (DOMAIN d \ {old}) \cup {new} |-> IF k = new THEN d[old] ELSE d[k]]

ParamDict(pm) == Rename(Rename(pm, "from_param", "from"), "to_param", "to")

\* A link entry that keeps to_node under its own key.
LinkDict_keeps_to_node(l) ==
    LET d == Rename(l, "from_node", "from")
    IN  IF "paramMapping" \in DOMAIN d
        THEN [d EXCEPT !["paramMapping"] = [i \in DOMAIN @ |-> ParamDict(@[i])]]
        ELSE d

\* One entry of obj["links"]: asdict of the link (its fields, as they are)
\* with from_node/to_node renamed and, when there is a parameter mapping
\* (link.get("paramMapping", []) or []), every entry of it renamed.
LinkDict(l) ==
    LET d == Rename(Rename(l, "from_node", "from"), "to_node", "to")
    IN  IF "paramMapping" \in DOMAIN d
        THEN [d EXCEPT !["paramMapping"] = [i \in DOMAIN @ |-> ParamDict(@[i])]]
        ELSE d

to_dict(ns, ls) ==
    [nodes |-> [i \in DOMAIN ns |-> NodeDict(ns[i])],
     links |-> [i \in DOMAIN ls |-> LinkDict(ls[i])]]

\* ------------------------------------------------------------- actions
Init ==
    /\ nodes = [p \in Pipelines |-> <<>>]
    /\ links = [p \in Pipelines |-> <<>>]
    /\ instance = [p \in Pipelines |-> None]
    /\ type = [n \in NodeIds |-> Unbuilt]
    /\ number = [n \in NodeIds |-> None]
    /\ pipeline = [n \in NodeIds |-> None]
    /\ last = Outcome("init", None, <<>>, NoError, <<>>, <<>>, <<>>, <<>>)

\* The next node object to construct (objects are constructed in id order).
Fresh(n) == type[n] = Unbuilt /\ \A m \in NodeIds : m < n => type[m] # Unbuilt

\* An add_node() that attaches the node and forgets to return it.
add_node_returns_nothing(p, n, t, num) ==
    /\ \/ Fresh(n)
       \/ type[n] = t /\ number[n] = num
    /\ type' = [type EXCEPT ![n] = t]
    /\ NodeAttach(n, p, num)
    /\ last' = Outcome("add_node", p, <<n, t, num>>, NoError, <<>>, <<>>, <<>>, <<>>)
    /\ UNCHANGED <<links, instance>>

\* pipeline.add_node(node).  A node object not constructed yet is
\* constructed first, detached, with kind t and number num (None: not
\* pre-supplied); the convenience constructors do the same in one call.
\* For a node constructed before, t and num are the fields it has.
add_node(p, n, t, num) ==
    /\ \/ Fresh(n)
       \/ type[n] = t /\ number[n] = num
    /\ type' = [type EXCEPT ![n] = t]
    /\ NodeAttach(n, p, num)
    /\ last' = Outcome("add_node", p, <<n, t, num>>, NoError, <<n>>, <<>>, <<>>, <<>>)
    /\ UNCHANGED <<links, instance>>

\* An add_link() that skips a link equal to one the pipeline holds.
add_link_skips_equal(p, l) ==
    /\ Len(links[p]) < MaxLinks
    /\ IF l \in Range(links[p]) THEN UNCHANGED links ELSE LinkAttach(l, p)
    /\ last' = Outcome("add_link", p, <<l>>, NoError, <<l>>, <<>>, <<>>, <<>>)
    /\ UNCHANGED <<nodes, instance, type, number, pipeline>>

\* pipeline.add_link(link) with a link object constructed for this call.
add_link(p, l) ==
    /\ Len(links[p]) < MaxLinks
    /\ LinkAttach(l, p)
    /\ last' = Outcome("add_link", p, <<l>>, NoError, <<l>>, <<>>, <<>>, <<>>)
    /\ UNCHANGED <<nodes, instance, type, number, pipeline>>

validate(p) ==
    /\ last' = Outcome("validate", p, <<>>, ValidateResult(nodes[p], links[p]),
                       <<>>, <<>>, <<>>, <<>>)
    /\ UNCHANGED <<nodes, links, instance, type, number, pipeline>>

\* A save() that submits first and validates afterwards.
save_submit_before_validate(p) ==
    LET err == ValidateResult(nodes[p], links[p])
        graph == to_dict(nodes[p], links[p])
    IN  /\ \/ /\ last' = Outcome("save", p, <<>>, RemoteError, <<>>,
                                   <<graph>>, <<>>, <<>>)
                /\ UNCHANGED instance
             \/ \E h \in Handles :
                   IF err # NoError
                   THEN /\ last' = Outcome("save", p, <<>>, err, <<>>,
                                           <<graph>>, <<>>, <<h>>)
                        /\ UNCHANGED instance
                   ELSE /\ instance' = [instance EXCEPT ![p] = h]
                        /\ last' = Outcome("save", p, <<>>, NoError, <<p>>,
                                           <<graph>>, <<>>, <<h>>)
        /\ UNCHANGED <<nodes, links, type, number, pipeline>>

\* A save() that clears the stored handle before it submits.
save_clears_handle_first(p) ==
    LET err == ValidateResult(nodes[p], links[p])
        graph == to_dict(nodes[p], links[p])
    IN  /\ IF err # NoError
           THEN /\ last' = Outcome("save", p, <<>>, err, <<>>, <<>>, <<>>, <<>>)
                /\ UNCHANGED instance
           ELSE \/ /\ last' = Outcome("save", p, <<>>, RemoteError, <<>>,
                                      <<graph>>, <<>>, <<>>)
                   /\ instance' = [instance EXCEPT ![p] = None]
                \/ \E h \in Handles :
                      /\ instance' = [instance EXCEPT ![p] = h]
                      /\ last' = Outcome("save", p, <<>>, NoError, <<p>>,
                                         <<graph>>, <<>>, <<h>>)
        /\ UNCHANGED <<nodes, links, type, number, pipeline>>

\* save(): validate, then PipelineFactory.create(name, to_dict()), which
\* raises or returns a handle; the handle is stored only after it returns.
\* The random name plays no part in what follows and is left out of sub.
save(p) ==
    LET err == ValidateResult(nodes[p], links[p])
        graph == to_dict(nodes[p], links[p])
    IN  /\ IF err # NoError
           THEN /\ last' = Outcome("save", p, <<>>, err, <<>>, <<>>, <<>>, <<>>)
                /\ UNCHANGED instance
           ELSE \/ /\ last' = Outcome("save", p, <<>>, RemoteError, <<>>,
                                      <<graph>>, <<>>, <<>>)
                   /\ UNCHANGED instance
                \/ \E h \in Handles :
                      /\ instance' = [instance EXCEPT ![p] = h]
                      /\ last' = Outcome("save", p, <<>>, NoError, <<p>>,
                                         <<graph>>, <<>>, <<h>>)
        /\ UNCHANGED <<nodes, links, type, number, pipeline>>

\* A run() that calls the handle without the caller's arguments.
run_drops_arguments(p, a) ==
    /\ IF instance[p] = None
       THEN last' = Outcome("run", p, <<a>>, <<"Pipeline not saved">>, <<>>,
                            <<>>, <<>>, <<>>)
       ELSE \/ last' = Outcome("run", p, <<a>>, RemoteError, <<>>, <<>>,
                               <<instance[p], "args_a">>, <<>>)
            \/ \E r \in RunResults :
                  last' = Outcome("run", p, <<a>>, NoError, <<r>>, <<>>,
                                  <<instance[p], "args_a">>, <<r>>)
    /\ UNCHANGED <<nodes, links, instance, type, number, pipeline>>

\* A run() that refuses a pipeline whose graph no longer validates.
run_revalidates(p, a) ==
    /\ IF instance[p] = None
       THEN last' = Outcome("run", p, <<a>>, <<"Pipeline not saved">>, <<>>,
                            <<>>, <<>>, <<>>)
       ELSE IF ValidateResult(nodes[p], links[p]) # NoError
       THEN last' = Outcome("run", p, <<a>>, ValidateResult(nodes[p], links[p]),
                            <<>>, <<>>, <<>>, <<>>)
       ELSE \/ last' = Outcome("run", p, <<a>>, RemoteError, <<>>, <<>>,
                               <<instance[p], a>>, <<>>)
            \/ \E r \in RunResults :
                  last' = Outcome("run", p, <<a>>, NoError, <<r>>, <<>>,
                                  <<instance[p], a>>, <<r>>)
    /\ UNCHANGED <<nodes, links, instance, type, number, pipeline>>

\* run(*args, **kwargs): refuses without a handle, else forwards to
\* instance.run, which raises or returns a result.
run(p, a) ==
    /\ IF instance[p] = None
       THEN last' = Outcome("run", p, <<a>>, <<"Pipeline not saved">>, <<>>,
                            <<>>, <<>>, <<>>)
       ELSE \/ last' = Outcome("run", p, <<a>>, RemoteError, <<>>, <<>>,
                               <<instance[p], a>>, <<>>)
            \/ \E r \in RunResults :
                  last' = Outcome("run", p, <<a>>, NoError, <<r>>, <<>>,
                                  <<instance[p], a>>, <<r>>)
    /\ UNCHANGED <<nodes, links, instance, type, number, pipeline>>

\* Link objects a caller constructs: any two numbers, no parameter mapping.
NewLinks ==
    {[from_node |-> f, to_node |-> t, paramMapping |-> <<>>] :
        f \in LinkNumbers, t \in LinkNumbers}

\* Numbers a node may carry into add_node: none, a pre-supplied one, or
\* (a node constructed before) the one it has.
NodeNumbers == {None} \cup PreNumbers \cup {number[m] : m \in NodeIds}

AddNode(p) ==
    \E n \in NodeIds, t \in Kinds, num \in NodeNumbers : add_node(p, n, t, num)

AddLink(p) == \E l \in NewLinks : add_link(p, l)

Validate(p) == validate(p)

Save(p) == save(p)

Run(p) == \E a \in RunArgs : run(p, a)

\* One pipeline under construction, validated, saved and run.
Next ==
    \/ AddNode(1)
    \/ AddLink(1)
    \/ Validate(1)
    \/ Save(1)
    \/ Run(1)

Spec == Init /\ [][Next]_vars

\* Several pipelines built side by side from one pool of node objects.
\* To keep the state space small the nodes are inputs and assets and every
\* link is the self-loop on number 1 (an asset numbered 1 then validates).
SideKinds == {"INPUT", "ASSET"}

LoopLink == [from_node |-> 1, to_node |-> 1, paramMapping |-> <<>>]

AttachNode(p) ==
    \E n \in NodeIds, t \in SideKinds, num \in NodeNumbers : add_node(p, n, t, num)

AttachLink(p) == add_link(p, LoopLink)

NextSide ==
    \E p \in Pipelines :
        \/ AttachNode(p)
        \/ AttachLink(p)
        \/ Save(p)

SpecSide == Init /\ [][NextSide]_vars

\* Serialization of one pipeline whose links carry parameter mappings.
\* pipeline.to_dict() as a call of its own: the caller gets the dictionary.
ToDict(p) ==
    /\ last' = Outcome("to_dict", p, <<>>, NoError,
                       <<to_dict(nodes[p], links[p])>>, <<>>, <<>>, <<>>)
    /\ UNCHANGED <<nodes, links, instance, type, number, pipeline>>

ParamNames == {"x", "y"}

\* Parameter mappings of a link: empty, one entry, two entries.
ParamMappings ==
    {<<>>} \cup
    {<<[from_param |-> a, to_param |-> b]>> : a \in ParamNames, b \in ParamNames} \cup
    {<<[from_param |-> "x", to_param |-> "y"], [from_param |-> "y", to_param |-> "x"]>>}

\* Link objects with a parameter mapping, and without the field at all.
WireLinks ==
    {[from_node |-> f, to_node |-> t, paramMapping |-> pm] :
        f \in LinkNumbers, t \in LinkNumbers, pm \in ParamMappings}
    \cup {[from_node |-> f, to_node |-> t] : f \in LinkNumbers, t \in LinkNumbers}

\* Nodes of this specification are numbered by attach.
WireNode(p) == \E n \in NodeIds, t \in SideKinds : Fresh(n) /\ add_node(p, n, t, None)

WireLink(p) == \E l \in WireLinks : add_link(p, l)

NextWire ==
    \/ WireNode(1)
    \/ WireLink(1)
    \/ ToDict(1)

SpecWire == Init /\ [][NextWire]_vars

\* ------------------------------------------------------------- router
\* RouteType.CHECK_TYPE, RouteType.CHECK_VALUE and Operation.EQUAL.
CHECK_TYPE == "checkType"

CHECK_VALUE == "checkValue"

EQUAL == "equal"

\* Data type tags a route may test (opaque values).
DataTypes == {"TEXT", "IMAGE"}

\* Route(value, path, type, operation): an object of these four fields.
Route(value, path, rtype, operation) ==
    [value |-> value, path |-> path, type |-> rtype, operation |-> operation]

\* An expansion into routes that check by value.
ExpandRoutes_check_value(routes) ==
    [i \in DOMAIN routes |->
        Route(routes[i][1], <<routes[i][2]>>, CHECK_VALUE, EQUAL)]

\* The list comprehension of router(): one Route per (dataType, node) pair.
ExpandRoutes(routes) ==
    [i \in DOMAIN routes |->
        Route(routes[i][1], <<routes[i][2]>>, CHECK_TYPE, EQUAL)]

\* kwargs["routes"] = ...: the key is set, whatever was under it is lost.
SetKey(kw, key, v) ==
    [k \in DOMAIN kw \cup {key} |-> IF k = key THEN v ELSE kw[k]]

\* pipeline.router(routes, **kw): the Router constructor is called with
\* the pipeline and the keyword arguments (fwd); it builds node n of kind
\* ROUTER, which attaches itself to the pipeline.
router(p, n, routes, kw) ==
    /\ Fresh(n)
    /\ type' = [type EXCEPT ![n] = "ROUTER"]
    /\ NodeAttach(n, p, None)
    /\ last' = Outcome("router", p, <<routes, kw>>, NoError, <<n>>, <<>>,
                       <<"Router", SetKey(kw, "routes", ExpandRoutes(routes))>>, <<>>)
    /\ UNCHANGED <<links, instance>>

\* Node objects constructed so far: what a route may point at.
Built == {m \in NodeIds : type[m] # Unbuilt}

\* Sequences of at most MaxRoutes (dataType, node) pairs.
RouteLists ==
    UNION {[1..k -> DataTypes \X Built] : k \in 0..MaxRoutes}

\* Other keyword arguments of the caller: none, or a label.
KwSamples == {<<>>, [label |-> "r"]}

Router(p) ==
    \E n \in NodeIds, routes \in RouteLists, kw \in KwSamples :
        router(p, n, routes, kw)

NextRouter ==
    \/ WireNode(1)
    \/ Router(1)

SpecRouter == Init /\ [][NextRouter]_vars

\* ------------------------------------------------------------- claims
\* The numbers of the nodes of pipeline p, and the link directions present.
NumbersOf(p) == {number[nodes[p][i]] : i \in DOMAIN nodes[p]}

OutDegree(p, k) == Cardinality({i \in DOMAIN links[p] : links[p][i].from_node = k})

InDegree(p, k) == Cardinality({i \in DOMAIN links[p] : links[p][i].to_node = k})

\* The local degree requirement of one node of pipeline p.
DegreeOK(p, n) ==
    CASE type[n] = "INPUT" -> OutDegree(p, number[n]) >= 1
      [] type[n] = "OUTPUT" -> InDegree(p, number[n]) >= 1
      [] OTHER -> OutDegree(p, number[n]) >= 1 /\ InDegree(p, number[n]) >= 1

\* C1: validate() succeeds if and only if every node of the pipeline meets
\* its local degree requirement (INPUT: an outgoing link, OUTPUT: an
\* incoming link, any other kind: both); nothing else affects the outcome.
C1_ValidateIffLocalDegree ==
    last.op = "validate" =>
        (last.raised = NoError <=>
            \A i \in DOMAIN nodes[last.p] : DegreeOK(last.p, nodes[last.p][i]))

\* C1 witness: validate() passed a graph of three nodes made of two
\* disconnected islands, one of them a self-loop.
C1_Witness ==
    /\ last.op = "validate" /\ last.raised = NoError
    /\ Len(nodes[last.p]) = 3
    /\ \E i \in DOMAIN links[last.p] :
          links[last.p][i].from_node = links[last.p][i].to_node
    /\ \E i \in DOMAIN nodes[last.p] : type[nodes[last.p][i]] = "INPUT"
    /\ \E i \in DOMAIN nodes[last.p] : type[nodes[last.p][i]] = "OUTPUT"

\* C2: whenever validate() fails, the message names the label of a node of
\* the pipeline and the direction that node misses: "not linked out" only
\* if the node's number is no link's source, "not linked in" only if it is
\* no link's target.
C2_MessageNamesMissingDirection ==
    (last.op = "validate" /\ last.raised # NoError) =>
        \E i \in DOMAIN nodes[last.p] :
            LET n == nodes[last.p][i]
            IN  /\ last.raised[2] = Label(n)
                /\ ~DegreeOK(last.p, n)
                /\ (last.raised[3] = "not linked out"
                        => OutDegree(last.p, number[n]) = 0)
                /\ (last.raised[3] = "not linked in"
                        => InDegree(last.p, number[n]) = 0)

\* C3: after a successful validate() every link's from_node and to_node is
\* the number of a node of the same pipeline.
C3_ValidatedLinksReferenceNodes ==
    (last.op = "validate" /\ last.raised = NoError) =>
        \A i \in DOMAIN links[last.p] :
            /\ links[last.p][i].from_node \in NumbersOf(last.p)
            /\ links[last.p][i].to_node \in NumbersOf(last.p)

\* The local degree requirement read off a serialized graph: the node
\* entries of the wire format against its from/to link entries.
WireDegreeOK(g) ==
    \A i \in DOMAIN g.nodes :
        LET k == g.nodes[i].number
            out == \E j \in DOMAIN g.links : g.links[j].from = k
            in == \E j \in DOMAIN g.links : g.links[j].to = k
        IN  CASE g.nodes[i].type = "INPUT" -> out
              [] g.nodes[i].type = "OUTPUT" -> in
              [] OTHER -> out /\ in

\* C4: save() validates before anything else.  When validate() fails on
\* the current collections, save() raises that error and nothing is handed
\* to PipelineFactory.create; whatever is handed to it is the serialization
\* of the current graph, and that graph passes validate().
C4_SaveValidatesFirst ==
    last.op = "save" =>
        LET err == ValidateResult(nodes[last.p], links[last.p])
        IN  /\ err # NoError => (last.raised = err /\ last.sub = <<>>)
            /\ last.sub # <<>> =>
                  /\ err = NoError
                  /\ WireDegreeOK(last.sub[1])
                  /\ Len(last.sub[1].nodes) = Len(nodes[last.p])
                  /\ Len(last.sub[1].links) = Len(links[last.p])

\* C4 witness: a pipeline saved before has been edited into a graph that
\* fails validation, and save() raised the validation error.
C4_Witness ==
    /\ last.op = "save"
    /\ last.raised \notin {NoError, RemoteError}
    /\ instance[last.p] # None

\* C5: a save() that fails (validation error or an error of the submission
\* collaborator) leaves instance as it was before the call; a save() that
\* succeeds stores the handle the collaborator returned and returns the
\* pipeline itself.
C5_SaveAllOrNothing ==
    [][last'.op = "save" =>
          IF last'.raised # NoError
          THEN instance' = instance /\ last'.ret = <<>>
          ELSE /\ last'.got # <<>>
               /\ instance' = [instance EXCEPT ![last'.p] = last'.got[1]]
               /\ last'.ret = <<last'.p>>]_vars

\* C5 witness: the collaborator raised during a save() of a pipeline that
\* holds the handle of an earlier save().
C5_Witness ==
    /\ last.op = "save"
    /\ last.raised = RemoteError
    /\ instance[last.p] # None

\* C6: run() raises "Pipeline not saved" and calls no handle while no
\* save() has succeeded (instance is unset, and only a successful save()
\* sets it); with a handle stored, run() forwards its arguments to that
\* handle and returns what the handle returns.
C6_RunNeedsSave ==
    [][/\ instance' # instance => (last'.op = "save" /\ last'.raised = NoError)
       /\ last'.op = "run" =>
             IF instance[last'.p] = None
             THEN /\ last'.raised = <<"Pipeline not saved">>
                  /\ last'.fwd = <<>>
                  /\ last'.ret = <<>>
             ELSE /\ last'.fwd = <<instance[last'.p], last'.args[1]>>
                  /\ last'.raised # <<"Pipeline not saved">>
                  /\ last'.raised = NoError => last'.ret = last'.got
                  /\ last'.raised = NoError <=> last'.got # <<>>]_vars

\* C6 witness: run() returned the handle's result for its second argument
\* value on a saved pipeline.
C6_Witness ==
    /\ last.op = "run"
    /\ last.raised = NoError
    /\ last.args = <<"args_b">>
    /\ last.fwd = <<instance[last.p], "args_b">>
    /\ last.ret = <<"result_y">>

\* C7: a node attached without a pre-supplied number gets 1 in an empty
\* pipeline and otherwise the largest number of the pipeline plus one, so
\* it is positive and above every number assigned before it (none is
\* reused); and a number, once set, never changes.
C7_AutoNumbering ==
    [][/\ \A n \in NodeIds : number[n] # None => number'[n] = number[n]
       /\ (last'.op = "add_node" /\ nodes' # nodes /\ last'.args[3] = None) =>
             LET p == last'.p
                 k == number'[last'.ret[1]]
                 old == {number[nodes[p][i]] : i \in DOMAIN nodes[p]}
             IN  /\ k >= 1
                 /\ \A x \in old : x < k
                 /\ old = {} => k = 1
                 /\ old # {} => k - 1 \in old]_vars

\* C7 witness: the third node of a pipeline was numbered automatically and
\* got 2, the numbers before it being 1 and 1.
C7_Witness ==
    /\ last.op = "add_node" /\ last.args[3] = None
    /\ Len(nodes[last.p]) = 3
    /\ nodes[last.p][3] = last.ret[1]
    /\ number[last.ret[1]] = 2

\* C8: in every reachable state the numbers of the nodes of a pipeline are
\* pairwise distinct positive integers.
C8_NumbersDistinct ==
    \A p \in Pipelines : \A i, j \in DOMAIN nodes[p] :
        /\ number[nodes[p][i]] >= 1
        /\ i # j => number[nodes[p][i]] # number[nodes[p][j]]

\* C9: add_node of a node that is attached to the same pipeline leaves the
\* node list, the numbers and the back-references as they are, returns the
\* node, and the node is in the list exactly once.
C9_AttachIdempotent ==
    [][(last'.op = "add_node" /\ pipeline[last'.args[1]] = last'.p) =>
          LET p == last'.p
              n == last'.args[1]
          IN  /\ nodes' = nodes
              /\ number' = number
              /\ pipeline' = pipeline
              /\ last'.ret = <<n>>
              /\ Cardinality({i \in DOMAIN nodes'[p] : nodes'[p][i] = n}) = 1]_vars

\* C9 witness: add_node was called again for a node that is not the latest
\* node of its pipeline.
C9_Witness ==
    /\ last.op = "add_node"
    /\ pipeline[last.args[1]] = last.p
    /\ Len(nodes[last.p]) = 3
    /\ nodes[last.p][1] = last.args[1]
    /\ last.ret = <<last.args[1]>>

\* C10: with several pipelines, every node is in the node list of at most
\* one pipeline, the one its back-reference names, and attaching a node or
\* a link to one pipeline leaves the nodes, links and instance of every
\* other pipeline unchanged.
C10_PipelinesIndependent ==
    [][/\ \A n \in NodeIds : \A q \in Pipelines :
             n \in Range(nodes'[q]) => pipeline'[n] = q
       /\ \A n \in NodeIds : \A q \in Pipelines :
             Cardinality({i \in DOMAIN nodes'[q] : nodes'[q][i] = n}) <= 1
       /\ last'.op \in {"add_node", "add_link"} =>
             \A q \in Pipelines \ {last'.p} :
                 /\ nodes'[q] = nodes[q]
                 /\ links'[q] = links[q]
                 /\ instance'[q] = instance[q]]_vars

\* C10 witness: add_node on the second pipeline was called for a node of
\* the first while both pipelines hold nodes, links and a handle.
C10_Witness ==
    /\ last.op = "add_node" /\ last.p = 2
    /\ pipeline[last.args[1]] = 1
    /\ nodes[2] # <<>> /\ links[1] # <<>> /\ links[2] # <<>>
    /\ instance[1] # None /\ instance[2] # None

\* C11: to_dict() returns a dictionary with exactly the keys nodes and
\* links, the i-th entry of each being the i-th attached node and link; a
\* link entry has from and to (and no from_node, to_node) with the link's
\* values, every entry of its parameter mapping has from and to (and no
\* from_param, to_param) with the entry's values, and a link with an empty
\* or absent parameter mapping serializes without error.
C11_ToDictRenames ==
    last.op = "to_dict" =>
        /\ last.raised = NoError
        /\ LET d == last.ret[1]
               ns == nodes[last.p]
               ls == links[last.p]
           IN  /\ DOMAIN d = {"nodes", "links"}
               /\ DOMAIN d.nodes = DOMAIN ns
               /\ \A i \in DOMAIN ns :
                     /\ d.nodes[i].number = number[ns[i]]
                     /\ d.nodes[i].type = type[ns[i]]
               /\ DOMAIN d.links = DOMAIN ls
               /\ \A i \in DOMAIN ls :
                     LET w == d.links[i]
                     IN  /\ DOMAIN w \cap {"from_node", "to_node"} = {}
                         /\ {"from", "to"} \subseteq DOMAIN w
                         /\ w["from"] = ls[i].from_node
                         /\ w["to"] = ls[i].to_node
                         /\ ("paramMapping" \in DOMAIN w) = ("paramMapping" \in DOMAIN ls[i])
                         /\ "paramMapping" \in DOMAIN w =>
                               /\ DOMAIN w.paramMapping = DOMAIN ls[i].paramMapping
                               /\ \A j \in DOMAIN w.paramMapping :
                                     /\ DOMAIN w.paramMapping[j] = {"from", "to"}
                                     /\ w.paramMapping[j]["from"] = ls[i].paramMapping[j].from_param
                                     /\ w.paramMapping[j]["to"] = ls[i].paramMapping[j].to_param

\* C11 witness: to_dict() was called on a pipeline of two nodes whose first
\* link maps two parameters and whose second link has no parameter mapping.
C11_Witness ==
    /\ last.op = "to_dict"
    /\ Len(nodes[last.p]) = 2
    /\ Len(links[last.p]) = 2
    /\ "paramMapping" \in DOMAIN links[last.p][1]
    /\ Len(links[last.p][1].paramMapping) = 2
    /\ "paramMapping" \notin DOMAIN links[last.p][2]
    /\ links[last.p][1].from_node # links[last.p][1].to_node

\* C12: router(routes) with n (dataType, node) pairs adds one node of kind
\* ROUTER to the pipeline, and the routes it is built with are n Route
\* entries in the order of the pairs, the i-th with value the i-th
\* dataType, path the one-element list of the i-th node, type CHECK_TYPE
\* and operation EQUAL; the caller's other keywords pass unchanged.
C12_RouterExpansion ==
    [][last'.op = "router" =>
          LET p == last'.p
              n == last'.ret[1]
              routes == last'.args[1]
              kw == last'.fwd[2]
          IN  /\ nodes'[p] = Append(nodes[p], n)
              /\ type'[n] = "ROUTER" /\ pipeline'[n] = p
              /\ \A m \in NodeIds \ {n} : type'[m] = type[m] /\ pipeline'[m] = pipeline[m]
              /\ last'.fwd[1] = "Router"
              /\ DOMAIN kw = DOMAIN last'.args[2] \cup {"routes"}
              /\ \A k \in DOMAIN last'.args[2] : kw[k] = last'.args[2][k]
              /\ Len(kw.routes) = Len(routes)
              /\ \A i \in 1..Len(routes) :
                    /\ kw.routes[i].value = routes[i][1]
                    /\ kw.routes[i].path = <<routes[i][2]>>
                    /\ kw.routes[i].type = "checkType"
                    /\ kw.routes[i].operation = "equal"]_vars

\* C12 witness: router() was called with a TEXT route to one node and an
\* IMAGE route to another, and a keyword of the caller's.
C12_Witness ==
    /\ last.op = "router"
    /\ Len(last.args[1]) = 2
    /\ last.args[1][1][1] = "TEXT" /\ last.args[1][2][1] = "IMAGE"
    /\ last.args[1][1][2] # last.args[1][2][2]
    /\ DOMAIN last.args[2] = {"label"}
    /\ Len(last.fwd[2].routes) = 2

\* C13: add_link appends the link at the end of the pipeline's link list
\* and changes neither the node list nor any node's number (nor a kind,
\* a back-reference or the handle); a link equal to one already in the
\* list is appended all the same, so k links of one (from_node, to_node)
\* pair leave k entries.
C13_AddLinkAppendsOnly ==
    [][last'.op = "add_link" =>
          LET p == last'.p
              l == last'.args[1]
              same(ls) == Cardinality({i \in DOMAIN ls :
                              ls[i].from_node = l.from_node /\ ls[i].to_node = l.to_node})
          IN  /\ links'[p] = Append(links[p], l)
              /\ same(links'[p]) = same(links[p]) + 1
              /\ \A q \in Pipelines \ {p} : links'[q] = links[q]
              /\ last'.ret = <<l>>
              /\ UNCHANGED <<nodes, number, type, pipeline, instance>>]_vars

\* C13 witness: the second of two links of the same pair was attached to
\* a pipeline that has nodes.
C13_Witness ==
    /\ last.op = "add_link"
    /\ Len(links[last.p]) = 2
    /\ links[last.p][1].from_node = links[last.p][2].from_node
    /\ links[last.p][1].to_node = links[last.p][2].to_node
    /\ nodes[last.p] # <<>>

\* C14: once a handle is stored, no add_node, add_link, validate, run or
\* failing save() changes it, and a successful save() replaces it by the
\* handle it got; run() on a pipeline with a handle is forwarded to that
\* handle whether or not the current node and link lists validate.
C14_HandleSurvivesEdits ==
    [][/\ \A p \in Pipelines :
             (instance[p] # None /\ ~(last'.op = "save" /\ last'.p = p /\ last'.raised = NoError))
                 => instance'[p] = instance[p]
       /\ (last'.op = "save" /\ last'.raised = NoError)
             => instance'[last'.p] = last'.got[1]
       /\ (last'.op = "run" /\ instance[last'.p] # None) =>
             /\ last'.fwd = <<instance[last'.p], last'.args[1]>>
             /\ last'.raised \in {NoError, RemoteError}]_vars

\* C14 witness: run() was forwarded to the stored handle of a pipeline
\* that was given a node and a link after its save() and fails validate().
C14_Witness ==
    /\ last.op = "run"
    /\ last.raised = NoError
    /\ last.fwd = <<instance[last.p], last.args[1]>>
    /\ ValidateResult(nodes[last.p], links[last.p]) # NoError
    /\ Len(nodes[last.p]) = 3
    /\ Len(links[last.p]) = 2

====
